---- MODULE Spec2Model ----
(***************************************************************************)
(* Model of the smsmts client library (src/mts.go): SendSMS,               *)
(* GetSMSStatuses, GetSMSStatus and the status classification helpers.     *)
(*                                                                         *)
(* The library holds no state of its own besides three package variables.  *)
(* A behaviour is a caller that owns a SubmitBatch and makes calls one     *)
(* after another.  The gateway's side of each HTTP exchange (what          *)
(* client.Do, the status line, the body and the decoder produce) is the    *)
(* input of a call and is drawn from a bounded set.                        *)
(***************************************************************************)
EXTENDS Integers, Sequences, FiniteSets, TLC

VARIABLES
    env,    \* package variables (mts.go:16-20)
    batch,  \* the caller's *SubmitBatch
    call,   \* the call in progress / just returned: operation, arguments, exchange
    ret,    \* what the call returned
    sent    \* the HTTP requests the call issued, in order

vars == <<env, batch, call, ret, sent>>

----------------------------------------------------------------------------
(* Bounds of the model *)

MaxBatch == 2       \* longest batch.Submits
MaxResults == 2     \* longest data.submitResults of a send response
MaxIDs == 2         \* longest messageIDs argument
MaxGroups == 2      \* longest data array of a status response
MaxStatuses == 2    \* longest statuses array of one group

SeqsUpTo(S, n) == UNION {[1..k -> S] : k \in 0..n}

----------------------------------------------------------------------------
(* Go library functions used by the code *)

DigitChar(d) ==
    CASE d = 0 -> "0" [] d = 1 -> "1" [] d = 2 -> "2" [] d = 3 -> "3"
      [] d = 4 -> "4" [] d = 5 -> "5" [] d = 6 -> "6" [] d = 7 -> "7"
      [] d = 8 -> "8" [] d = 9 -> "9"

RECURSIVE Digits(_)
Digits(n) == IF n < 10 THEN DigitChar(n)
             ELSE Digits(n \div 10) \o DigitChar(n % 10)

\* strconv.Itoa: decimal text of an int
Itoa(n) == IF n < 0 THEN "-" \o Digits(0 - n) ELSE Digits(n)

\* strings.Join
RECURSIVE Join(_, _)
Join(strs, sep) ==
    IF strs = <<>> THEN ""
    ELSE IF Len(strs) = 1 THEN strs[1]
    ELSE strs[1] \o sep \o Join(Tail(strs), sep)

\* fmt.Errorf: a non-nil error with the given text
Errorf(msg) == [nil |-> FALSE, msg |-> msg]

\* the nil error
NilErr == [nil |-> TRUE, msg |-> ""]

\* fmt.Sprintf of a template with one %s verb; a template is kept as the text
\* before and after the verb
Sprintf(templ, arg) == templ.pre \o arg \o templ.post

HTTPStatusOK == 200

----------------------------------------------------------------------------
(* Package variables *)

SendMessageEndpoint ==
    "https://api.mts.ru/client-omni-adapter_production/1.0.2/mcom/messageManagement/messages"

MessageStatusEndpointTempl ==
    [pre  |-> "https://api.mts.ru/client-omni-adapter_production/1.0.2/mcom/messageManagement/messages/status?messageIDs=",
     post |-> ""]

QueryTimeoutSec == 10

DefaultEnv ==
    [SendMessageEndpoint        |-> SendMessageEndpoint,
     MessageStatusEndpointTempl |-> MessageStatusEndpointTempl,
     QueryTimeoutSec            |-> QueryTimeoutSec]

\* the values the tests give the package variables (an httptest server)
TestEnv ==
    [SendMessageEndpoint        |-> "http://127.0.0.1:8080",
     MessageStatusEndpointTempl |-> [pre |-> "http://127.0.0.1:8080?messageIDs=", post |-> ""],
     QueryTimeoutSec            |-> 0]

Envs == {DefaultEnv, TestEnv}

Tokens == {"valid-token", ""}

----------------------------------------------------------------------------
(* Status constants (mts.go:23-29) *)

StatusNotSent == "NotSent"
StatusSent == "Sent"
StatusSending == "Sending"
StatusDelivered == "Delivered"
StatusNotDelivered == "NotDelivered"

----------------------------------------------------------------------------
(* Data model of the submit operation *)

MsIDs == {"79001234567", "79007654321"}

Messages == {"Hello"}

Namings == {"test"}

\* message identifiers the gateway assigns
GatewayIDs == {1001, 1002}

Codes == {"OK", "Rejected"}

\* SubmitMsg as a caller builds it: the two result fields have their zero values
NewSubmitMsg(msid, message) ==
    [MsID |-> msid, Message |-> message, SendError |-> FALSE, MessageID |-> 0]

FreshSubmits == {NewSubmitMsg(m, t) : m \in MsIDs, t \in Messages}

FreshBatches ==
    {[Submits |-> s, Naming |-> n] : s \in SeqsUpTo(FreshSubmits, MaxBatch), n \in Namings}

\* one element of SendResponse.Data.SubmitResults
SubmitResults == [MsID : MsIDs, MessageID : GatewayIDs, Code : Codes]

\* top-level status and description of a response
TopLevels == {<<0, "Success">>, <<1, "Invalid token">>, <<0 - 1, "">>}

\* SendResponse as the decoder fills it
SendResponses ==
    {[Status |-> t[1], Description |-> t[2], Data |-> [SubmitResults |-> r]] :
        t \in TopLevels, r \in SeqsUpTo(SubmitResults, MaxResults)}

\* What the gateway and the network make of one request, apart from the
\* decoded document: the error of client.Do ("" when a response arrives), the
\* HTTP status code, the error of io.ReadAll, the error of json.Unmarshal and
\* the text of the body as an error message quotes it.
Transports ==
    {[doErr |-> "", StatusCode |-> 200, readErr |-> "", jsonErr |-> "", raw |-> "{...}"],
     [doErr |-> "", StatusCode |-> 200, readErr |-> "",
      jsonErr |-> "invalid character '<' looking for beginning of value", raw |-> "<html>"],
     [doErr |-> "", StatusCode |-> 200, readErr |-> "unexpected EOF", jsonErr |-> "", raw |-> ""],
     [doErr |-> "", StatusCode |-> 500, readErr |-> "", jsonErr |-> "", raw |-> "{...}"],
     [doErr |-> "connection refused", StatusCode |-> 0, readErr |-> "", jsonErr |-> "", raw |-> ""]}

\* An exchange of SendSMS: a transport outcome and the document the body holds.
\* No response arrives when client.Do fails, so that outcome carries one document.
SendExchanges ==
    {[t |-> t, doc |-> d] : t \in Transports, d \in SendResponses} \
    {[t |-> t, doc |-> d] : t \in {u \in Transports : u.doErr # ""},
                            d \in {e \in SendResponses : e.Data.SubmitResults # <<>> \/ e.Status # 0}}

----------------------------------------------------------------------------
(* SendSMS (mts.go:88-151) *)

\* json.Marshal of one SubmitMsg: send_error and message_id carry omitempty
MarshalSubmitMsg(m) ==
    IF m.SendError /\ m.MessageID # 0
    THEN [msid |-> m.MsID, message |-> m.Message, send_error |-> TRUE, message_id |-> m.MessageID]
    ELSE IF m.SendError
    THEN [msid |-> m.MsID, message |-> m.Message, send_error |-> TRUE]
    ELSE IF m.MessageID # 0
    THEN [msid |-> m.MsID, message |-> m.Message, message_id |-> m.MessageID]
    ELSE [msid |-> m.MsID, message |-> m.Message]

\* json.Marshal(batch)
MarshalBatch(b) ==
    [submits |-> [i \in DOMAIN b.Submits |-> MarshalSubmitMsg(b.Submits[i])],
     naming  |-> b.Naming]

\* the POST request SendSMS builds (mts.go:98-108)
SendRequest(e, b, token) ==
    [method        |-> "POST",
     url           |-> e.SendMessageEndpoint,
     contentType   |-> "application/json",
     authorization |-> "Bearer " \o token,
     timeoutSec    |-> e.QueryTimeoutSec,
     body          |-> MarshalBatch(b)]

\* FindByMsID with the index left at the first element when nothing matches
RECURSIVE FindByMsID_DefaultFirst(_, _, _)
FindByMsID_DefaultFirst(submits, msid, i) ==
    IF i > Len(submits) THEN (IF Len(submits) > 0 THEN 1 ELSE 0)
    ELSE IF submits[i].MsID = msid THEN i
    ELSE FindByMsID_DefaultFirst(submits, msid, i + 1)

\* the inner loop (mts.go:134-142): the index of the first element, from i on,
\* whose MsID is msid; 0 when the loop ends without a match
RECURSIVE FindByMsID(_, _, _)
FindByMsID(submits, msid, i) ==
    IF i > Len(submits) THEN 0
    ELSE IF submits[i].MsID = msid THEN i
    ELSE FindByMsID(submits, msid, i + 1)

\* SetResult without the break: every element with the recipient is written
SetResult_AllMatches(submits, sbRes) ==
    [i \in DOMAIN submits |->
        IF submits[i].MsID = sbRes.MsID
        THEN [submits[i] EXCEPT !.MessageID = sbRes.MessageID,
                                !.SendError = IF sbRes.Code # "OK" THEN TRUE ELSE @]
        ELSE submits[i]]

\* SetResult assigning SendError from the code, so that "OK" clears it
SetResult_AssignsSendError(submits, sbRes) ==
    LET i == FindByMsID(submits, sbRes.MsID, 1) IN
    IF i = 0 THEN submits
    ELSE [submits EXCEPT ![i] = [@ EXCEPT !.MessageID = sbRes.MessageID,
                                          !.SendError = (sbRes.Code # "OK")]]

\* the body of the outer loop for one submit result (mts.go:132-142)
SetResult(submits, sbRes) ==
    LET i == FindByMsID(submits, sbRes.MsID, 1) IN
    IF i = 0 THEN submits
    ELSE [submits EXCEPT ![i] = [@ EXCEPT !.MessageID = sbRes.MessageID,
                                          !.SendError = IF sbRes.Code # "OK" THEN TRUE ELSE @]]

\* SetResults walking the submit results from the last to the first
RECURSIVE SetResults_Reversed(_, _)
SetResults_Reversed(submits, results) ==
    IF results = <<>> THEN submits
    ELSE SetResult(SetResults_Reversed(submits, Tail(results)), Head(results))

\* the outer loop (mts.go:131-143)
RECURSIVE SetResults(_, _)
SetResults(submits, results) ==
    IF results = <<>> THEN submits
    ELSE SetResults(SetResult(submits, Head(results)), Tail(results))

\* SendSMS testing the top-level status before it writes the submit results
SendSMS_StatusBeforeResults(e, b, token, x) ==
    LET req == SendRequest(e, b, token) IN
    IF x.t.doErr # ""
    THEN [batch |-> b, err |-> Errorf("client.Do(): " \o x.t.doErr), sent |-> <<req>>]
    ELSE IF x.t.StatusCode # HTTPStatusOK
    THEN [batch |-> b,
          err   |-> Errorf("http status: " \o Itoa(x.t.StatusCode) \o " with token: " \o token),
          sent  |-> <<req>>]
    ELSE IF x.t.readErr # ""
    THEN [batch |-> b, err |-> Errorf("io.ReadAll(): " \o x.t.readErr), sent |-> <<req>>]
    ELSE IF x.t.jsonErr # ""
    THEN [batch |-> b, err |-> Errorf("json.Unmarshal(): " \o x.t.jsonErr), sent |-> <<req>>]
    ELSE IF x.doc.Status # 0
    THEN [batch |-> b, err |-> Errorf("error: " \o x.doc.Description), sent |-> <<req>>]
    ELSE [batch |-> [b EXCEPT !.Submits = SetResults(@, x.doc.Data.SubmitResults)],
          err   |-> NilErr,
          sent  |-> <<req>>]

\* SendSMS without the test of the HTTP status code
SendSMS_NoStatusCodeTest(e, b, token, x) ==
    LET req == SendRequest(e, b, token) IN
    IF x.t.doErr # ""
    THEN [batch |-> b, err |-> Errorf("client.Do(): " \o x.t.doErr), sent |-> <<req>>]
    ELSE IF x.t.readErr # ""
    THEN [batch |-> b, err |-> Errorf("io.ReadAll(): " \o x.t.readErr), sent |-> <<req>>]
    ELSE IF x.t.jsonErr # ""
    THEN [batch |-> b, err |-> Errorf("json.Unmarshal(): " \o x.t.jsonErr), sent |-> <<req>>]
    ELSE LET after == [b EXCEPT !.Submits = SetResults(@, x.doc.Data.SubmitResults)]
         IN IF x.doc.Status # 0
            THEN [batch |-> after, err |-> Errorf("error: " \o x.doc.Description), sent |-> <<req>>]
            ELSE [batch |-> after, err |-> NilErr, sent |-> <<req>>]

\* SendSMS(batch, token) under package variables e and exchange x:
\* the batch after the call, the error returned and the requests issued
SendSMS(e, b, token, x) ==
    LET req == SendRequest(e, b, token) IN
    IF x.t.doErr # ""
    THEN [batch |-> b, err |-> Errorf("client.Do(): " \o x.t.doErr), sent |-> <<req>>]
    ELSE IF x.t.StatusCode # HTTPStatusOK
    THEN [batch |-> b,
          err   |-> Errorf("http status: " \o Itoa(x.t.StatusCode) \o " with token: " \o token),
          sent  |-> <<req>>]
    ELSE IF x.t.readErr # ""
    THEN [batch |-> b, err |-> Errorf("io.ReadAll(): " \o x.t.readErr), sent |-> <<req>>]
    ELSE IF x.t.jsonErr # ""
    THEN [batch |-> b, err |-> Errorf("json.Unmarshal(): " \o x.t.jsonErr), sent |-> <<req>>]
    ELSE LET respStruct == x.doc
             after == [b EXCEPT !.Submits = SetResults(@, respStruct.Data.SubmitResults)]
         IN IF respStruct.Status # 0
            THEN [batch |-> after,
                  err   |-> Errorf("error: " \o respStruct.Description),
                  sent  |-> <<req>>]
            ELSE [batch |-> after, err |-> NilErr, sent |-> <<req>>]

----------------------------------------------------------------------------
(* Data model of the status query *)

\* message identifiers a caller asks about
QueryIDs == {1001, 9999}

\* message identifiers the gateway files statuses under
GroupIDs == {1001, 1002}

\* One element of StatResponse.Data[i].Statuses.  Cost is a float64 that the
\* code only copies; it is kept in hundredths.  Date stands for the fields the
\* decoder accepts and GetSMSStatuses drops.  The last entry is what the
\* decoder makes of an object without these keys.
StatusEntries ==
    {[MsID |-> "79001234567", Status |-> "Delivered", Date |-> "2025-12-09T05:19:02Z", Cost |-> 150],
     [MsID |-> "79007654321", Status |-> "NotSent", Date |-> "2025-12-09T05:19:02Z", Cost |-> 0],
     [MsID |-> "", Status |-> "", Date |-> "", Cost |-> 0]}

\* one element of StatResponse.Data
StatusGroups ==
    [MessageID : GroupIDs, Statuses : SeqsUpTo(StatusEntries, MaxStatuses)]

\* StatResponse.Data: the gateway files each message identifier once
StatusData ==
    {d \in SeqsUpTo(StatusGroups, MaxGroups) :
        \A i, j \in DOMAIN d : i # j => d[i].MessageID # d[j].MessageID}

\* StatResponse as the decoder fills it
StatResponses ==
    {[Code |-> t[1], Description |-> t[2], Data |-> d] : t \in TopLevels, d \in StatusData}

\* An exchange of GetSMSStatuses, as for SendSMS.
StatExchanges ==
    {[t |-> t, doc |-> d] : t \in Transports, d \in StatResponses} \
    {[t |-> t, doc |-> d] : t \in {u \in Transports : u.doErr # ""},
                            d \in {e \in StatResponses : e.Data # <<>> \/ e.Code # 0}}

\* a []MessageStatus: nil, or a slice with the given elements
NilSlice == [nil |-> TRUE, items |-> <<>>]

Slice(items) == [nil |-> FALSE, items |-> items]

\* a *MessageStatus: nil, or a pointer to the given value
NilStatus == [nil |-> TRUE]

StatusPtr(v) == [nil |-> FALSE, val |-> v]

----------------------------------------------------------------------------
(* GetSMSStatuses (mts.go:153-218) *)

\* the GET request GetSMSStatuses builds (mts.go:158-177)
StatusRequest(e, messageIDs, token) ==
    LET idStrs == [i \in DOMAIN messageIDs |-> Itoa(messageIDs[i])]
        idsParam == Join(idStrs, ",")
    IN [method        |-> "GET",
        url           |-> Sprintf(e.MessageStatusEndpointTempl, idsParam),
        authorization |-> "Bearer " \o token,
        timeoutSec    |-> e.QueryTimeoutSec]

\* the inner loop (mts.go:207-214): the records of one group
AppendStatuses(dataItem) ==
    [k \in DOMAIN dataItem.Statuses |->
        [MessageID |-> Itoa(dataItem.MessageID),
         MsID      |-> dataItem.Statuses[k].MsID,
         Status    |-> dataItem.Statuses[k].Status,
         Cost      |-> dataItem.Statuses[k].Cost,
         Error     |-> ""]]

\* AllStatuses with the groups taken from the last to the first
RECURSIVE AllStatuses_LastGroupFirst(_)
AllStatuses_LastGroupFirst(data) ==
    IF data = <<>> THEN <<>>
    ELSE AllStatuses_LastGroupFirst(Tail(data)) \o AppendStatuses(Head(data))

\* the outer loop (mts.go:206-215): the elements appended to allStatuses
RECURSIVE AllStatuses(_)
AllStatuses(data) ==
    IF data = <<>> THEN <<>>
    ELSE AppendStatuses(Head(data)) \o AllStatuses(Tail(data))

\* GetSMSStatuses without the test for an empty messageIDs
GetSMSStatuses_NoEmptyTest(e, messageIDs, token, x) ==
    LET req == StatusRequest(e, messageIDs, token) IN
    IF x.t.doErr # ""
    THEN [statuses |-> NilSlice, err |-> Errorf("client.Do(): " \o x.t.doErr), sent |-> <<req>>]
    ELSE IF x.t.StatusCode # HTTPStatusOK
    THEN [statuses |-> NilSlice,
          err      |-> Errorf("http status: " \o Itoa(x.t.StatusCode)),
          sent     |-> <<req>>]
    ELSE IF x.t.readErr # ""
    THEN [statuses |-> NilSlice, err |-> Errorf("io.ReadAll(): " \o x.t.readErr), sent |-> <<req>>]
    ELSE IF x.t.jsonErr # ""
    THEN [statuses |-> NilSlice,
          err      |-> Errorf("json.Unmarshal(): " \o x.t.jsonErr \o ", body: " \o x.t.raw),
          sent     |-> <<req>>]
    ELSE IF x.doc.Code # 0
    THEN [statuses |-> NilSlice,
          err      |-> Errorf("API error: " \o x.doc.Description),
          sent     |-> <<req>>]
    ELSE LET allStatuses == AllStatuses(x.doc.Data) IN
         [statuses |-> IF allStatuses = <<>> THEN NilSlice ELSE Slice(allStatuses),
          err      |-> NilErr,
          sent     |-> <<req>>]

\* GetSMSStatuses flattening the data before it tests the top-level code
GetSMSStatuses_StatusesWithAPIError(e, messageIDs, token, x) ==
    IF Len(messageIDs) = 0
    THEN [statuses |-> Slice(<<>>), err |-> NilErr, sent |-> <<>>]
    ELSE
    LET req == StatusRequest(e, messageIDs, token) IN
    IF x.t.doErr # ""
    THEN [statuses |-> NilSlice, err |-> Errorf("client.Do(): " \o x.t.doErr), sent |-> <<req>>]
    ELSE IF x.t.StatusCode # HTTPStatusOK
    THEN [statuses |-> NilSlice,
          err      |-> Errorf("http status: " \o Itoa(x.t.StatusCode)),
          sent     |-> <<req>>]
    ELSE IF x.t.readErr # ""
    THEN [statuses |-> NilSlice, err |-> Errorf("io.ReadAll(): " \o x.t.readErr), sent |-> <<req>>]
    ELSE IF x.t.jsonErr # ""
    THEN [statuses |-> NilSlice,
          err      |-> Errorf("json.Unmarshal(): " \o x.t.jsonErr \o ", body: " \o x.t.raw),
          sent     |-> <<req>>]
    ELSE LET allStatuses == AllStatuses(x.doc.Data) IN
         [statuses |-> IF allStatuses = <<>> THEN NilSlice ELSE Slice(allStatuses),
          err      |-> IF x.doc.Code # 0 THEN Errorf("API error: " \o x.doc.Description)
                       ELSE NilErr,
          sent     |-> <<req>>]

\* GetSMSStatuses(messageIDs, token) under package variables e and exchange x:
\* the slice and the error returned and the requests issued
GetSMSStatuses(e, messageIDs, token, x) ==
    IF Len(messageIDs) = 0
    THEN [statuses |-> Slice(<<>>), err |-> NilErr, sent |-> <<>>]
    ELSE
    LET req == StatusRequest(e, messageIDs, token) IN
    IF x.t.doErr # ""
    THEN [statuses |-> NilSlice, err |-> Errorf("client.Do(): " \o x.t.doErr), sent |-> <<req>>]
    ELSE IF x.t.StatusCode # HTTPStatusOK
    THEN [statuses |-> NilSlice,
          err      |-> Errorf("http status: " \o Itoa(x.t.StatusCode)),
          sent     |-> <<req>>]
    ELSE IF x.t.readErr # ""
    THEN [statuses |-> NilSlice, err |-> Errorf("io.ReadAll(): " \o x.t.readErr), sent |-> <<req>>]
    ELSE IF x.t.jsonErr # ""
    THEN [statuses |-> NilSlice,
          err      |-> Errorf("json.Unmarshal(): " \o x.t.jsonErr \o ", body: " \o x.t.raw),
          sent     |-> <<req>>]
    ELSE LET respStruct == x.doc IN
         IF respStruct.Code # 0
         THEN [statuses |-> NilSlice,
               err      |-> Errorf("API error: " \o respStruct.Description),
               sent     |-> <<req>>]
         ELSE LET allStatuses == AllStatuses(respStruct.Data) IN
              [statuses |-> IF allStatuses = <<>> THEN NilSlice ELSE Slice(allStatuses),
               err      |-> NilErr,
               sent     |-> <<req>>]

----------------------------------------------------------------------------
(* GetSMSStatus (mts.go:219-229) *)

\* GetSMSStatus returning the zero MessageStatus when the list is empty
GetSMSStatus_NoEmptyTest(e, messageID, token, x) ==
    LET r == GetSMSStatuses(e, <<messageID>>, token, x) IN
    IF ~r.err.nil
    THEN [status |-> NilStatus, err |-> r.err, sent |-> r.sent]
    ELSE IF Len(r.statuses.items) = 0
    THEN [status |-> StatusPtr([MessageID |-> "", MsID |-> "", Status |-> "",
                                Cost |-> 0, Error |-> ""]),
          err    |-> NilErr,
          sent   |-> r.sent]
    ELSE [status |-> StatusPtr(r.statuses.items[1]), err |-> NilErr, sent |-> r.sent]

GetSMSStatus(e, messageID, token, x) ==
    LET r == GetSMSStatuses(e, <<messageID>>, token, x) IN
    IF ~r.err.nil
    THEN [status |-> NilStatus, err |-> r.err, sent |-> r.sent]
    ELSE IF Len(r.statuses.items) = 0
    THEN [status |-> NilStatus,
          err    |-> Errorf("no status found for message ID " \o Itoa(messageID)),
          sent   |-> r.sent]
    ELSE [status |-> StatusPtr(r.statuses.items[1]), err |-> NilErr, sent |-> r.sent]

----------------------------------------------------------------------------
(* Status classification (mts.go:231-249) *)

\* IsFinalStatus with Sent among the final statuses
IsFinalStatus_WithSent(status) ==
    status \in {StatusDelivered, StatusNotDelivered, StatusNotSent, StatusSent}

IsFinalStatus(status) ==
    status \in {StatusDelivered, StatusNotDelivered, StatusNotSent}

IsDeliveredStatus(status) == status = StatusDelivered

IsFailedStatus(status) == status = StatusNotDelivered \/ status = StatusNotSent

\* status strings a caller classifies: the gateway's, and some it never sends
StatusStrings ==
    {"Pending", "NotSent", "Sent", "Sending", "Delivered", "NotDelivered",
     "BogusStatus", "Unknown", "delivered", ""}

----------------------------------------------------------------------------
(* The caller *)

NoCall == [op |-> "none"]

NoRet == [op |-> "none"]

\* the package variables are as declared; the caller has built a batch and
\* made no call
InitSend ==
    /\ env = DefaultEnv
    /\ batch \in FreshBatches
    /\ call = NoCall
    /\ ret = NoRet
    /\ sent = <<>>

\* the caller calls SendSMS(batch, token); the call runs to its return
SendSMSCall ==
    /\ call.op = "none"
    /\ \E token \in Tokens, x \in SendExchanges :
          LET r == SendSMS(env, batch, token, x) IN
          /\ call' = [op |-> "SendSMS", batch |-> batch, token |-> token, x |-> x]
          /\ batch' = r.batch
          /\ ret' = [op |-> "SendSMS", err |-> r.err]
          /\ sent' = r.sent
    /\ UNCHANGED env

\* the caller has looked at the result and goes on; the batch stays as the
\* call left it
Continue ==
    /\ call.op # "none"
    /\ call' = NoCall
    /\ ret' = NoRet
    /\ sent' = <<>>
    /\ UNCHANGED <<env, batch>>

NextSend == SendSMSCall \/ Continue

SpecSend == InitSend /\ [][NextSend]_vars

\* a caller of the status operations: the package variables are as declared
\* or as a test set them; it holds no batch
InitStat ==
    /\ env \in Envs
    /\ batch = [Submits |-> <<>>, Naming |-> ""]
    /\ call = NoCall
    /\ ret = NoRet
    /\ sent = <<>>

\* the caller calls GetSMSStatuses(messageIDs, token)
GetSMSStatusesCall ==
    /\ call.op = "none"
    /\ \E messageIDs \in SeqsUpTo(QueryIDs, MaxIDs), token \in Tokens, x \in StatExchanges :
          LET r == GetSMSStatuses(env, messageIDs, token, x) IN
          /\ call' = [op |-> "GetSMSStatuses", messageIDs |-> messageIDs,
                      token |-> token, x |-> x]
          /\ ret' = [op |-> "GetSMSStatuses", statuses |-> r.statuses, err |-> r.err]
          /\ sent' = r.sent
    /\ UNCHANGED <<env, batch>>

\* the caller calls GetSMSStatus(messageID, token)
GetSMSStatusCall ==
    /\ call.op = "none"
    /\ \E messageID \in QueryIDs, token \in Tokens, x \in StatExchanges :
          LET r == GetSMSStatus(env, messageID, token, x) IN
          /\ call' = [op |-> "GetSMSStatus", messageID |-> messageID,
                      token |-> token, x |-> x]
          /\ ret' = [op |-> "GetSMSStatus", status |-> r.status, err |-> r.err]
          /\ sent' = r.sent
    /\ UNCHANGED <<env, batch>>

\* the caller classifies a status string with the three helpers
ClassifyCall ==
    /\ call.op = "none"
    /\ \E status \in StatusStrings :
          /\ call' = [op |-> "Classify", status |-> status]
          /\ ret' = [op |-> "Classify",
                     final     |-> IsFinalStatus(status),
                     delivered |-> IsDeliveredStatus(status),
                     failed    |-> IsFailedStatus(status)]
    /\ UNCHANGED <<env, batch, sent>>

NextStat == GetSMSStatusesCall \/ GetSMSStatusCall \/ ClassifyCall \/ Continue

SpecStat == InitStat /\ [][NextStat]_vars

----------------------------------------------------------------------------
(* Properties of SendSMS *)

Max(S) == CHOOSE m \in S : \A o \in S : m >= o

\* a SendSMS call has returned and the caller has not gone on yet
SendReturned == call.op = "SendSMS"

\* a response arrived with HTTP 200 and a body that was read and decoded
WellFormed(t) ==
    t.doErr = "" /\ t.StatusCode = 200 /\ t.readErr = "" /\ t.jsonErr = ""

\* element i is the lowest-index element of submits with its recipient
IsFirstOf(submits, i) == \A j \in 1..(i - 1) : submits[j].MsID # submits[i].MsID

\* the positions of the entries of results that name msid
EntriesFor(results, msid) == {k \in DOMAIN results : results[k].MsID = msid}

\* the entries of the response that SendSMS writes into element i of the
\* batch it was given
WrittenTo(i) ==
    IF IsFirstOf(call.batch.Submits, i)
    THEN EntriesFor(call.x.doc.Data.SubmitResults, call.batch.Submits[i].MsID)
    ELSE {}

\* the result fields of every element are what the entries written to it, taken
\* in response order, leave there
ResultsWritten ==
    /\ Len(batch.Submits) = Len(call.batch.Submits)
    /\ \A i \in DOMAIN call.batch.Submits :
          LET old == call.batch.Submits[i]
              new == batch.Submits[i]
              res == call.x.doc.Data.SubmitResults
              ks  == WrittenTo(i)
          IN /\ new.MessageID = IF ks = {} THEN old.MessageID ELSE res[Max(ks)].MessageID
             /\ new.SendError = (old.SendError \/ \E k \in ks : res[k].Code # "OK")
             /\ new.MsID = old.MsID
             /\ new.Message = old.Message

\* C1: on a well-formed (HTTP 200, decoded) response the entries are processed
\* in response order; each entry writes its messageID into the lowest-index
\* element with its msid and raises that element's SendError when its code is
\* not "OK"; nothing else is written.
C1_EntriesWrittenInOrder ==
    (SendReturned /\ WellFormed(call.x.t)) => ResultsWritten

\* C1 witness: the fresh batch with recipients A and B, answered 1001->A and
\* 1002->B with code "OK": both identifiers are set and no SendError is raised.
C1_Witness ==
    /\ SendReturned /\ WellFormed(call.x.t)
    /\ call.batch.Submits = <<NewSubmitMsg("79001234567", "Hello"),
                              NewSubmitMsg("79007654321", "Hello")>>
    /\ call.x.doc.Data.SubmitResults =
          <<[MsID |-> "79001234567", MessageID |-> 1001, Code |-> "OK"],
            [MsID |-> "79007654321", MessageID |-> 1002, Code |-> "OK"]>>
    /\ batch.Submits[1].MessageID = 1001 /\ ~batch.Submits[1].SendError
    /\ batch.Submits[2].MessageID = 1002 /\ ~batch.Submits[2].SendError

\* C2: a decoded response with a non-zero top-level status makes SendSMS return
\* the error "error: <description>", and the writes of the response's entries
\* are in the batch when it does.
C2_APIErrorAfterReconciliation ==
    (SendReturned /\ WellFormed(call.x.t) /\ call.x.doc.Status # 0) =>
        /\ ret.err = Errorf("error: " \o call.x.doc.Description)
        /\ ResultsWritten

\* C2 witness: status 1, "Invalid token", with an entry that changed the batch.
C2_Witness ==
    /\ SendReturned /\ WellFormed(call.x.t)
    /\ call.x.doc.Status = 1
    /\ ret.err.msg = "error: Invalid token"
    /\ batch # call.batch
    /\ \E i \in DOMAIN batch.Submits :
          batch.Submits[i].MessageID = 1001 /\ batch.Submits[i].SendError

\* C3 as stated: after a call that returned no error, every entry of the
\* response has a batch element with its msid and its messageID.
C3_EveryEntryAcknowledged ==
    (SendReturned /\ ret.err.nil) =>
        \A k \in DOMAIN call.x.doc.Data.SubmitResults :
            \E i \in DOMAIN batch.Submits :
                /\ batch.Submits[i].MsID = call.x.doc.Data.SubmitResults[k].MsID
                /\ batch.Submits[i].MessageID = call.x.doc.Data.SubmitResults[k].MessageID

\* C3 amended: after a call that returned no error, every entry that is the
\* last one of the response with its msid, and whose msid is the recipient of
\* some batch element, has its messageID in the first element with that
\* recipient.
C3_LastMatchedEntryAcknowledged ==
    (SendReturned /\ ret.err.nil) =>
        LET res == call.x.doc.Data.SubmitResults IN
        \A k \in DOMAIN res :
            ((\A l \in DOMAIN res : l > k => res[l].MsID # res[k].MsID)
              /\ \E i \in DOMAIN batch.Submits : batch.Submits[i].MsID = res[k].MsID)
            => \E i \in DOMAIN batch.Submits :
                  /\ IsFirstOf(batch.Submits, i)
                  /\ batch.Submits[i].MsID = res[k].MsID
                  /\ batch.Submits[i].MessageID = res[k].MessageID

\* C3 witness: no error, two entries for one recipient with different
\* identifiers; the element holds the later one.
C3_Witness ==
    /\ SendReturned /\ ret.err.nil
    /\ Len(call.x.doc.Data.SubmitResults) = 2
    /\ call.x.doc.Data.SubmitResults[1].MsID = call.x.doc.Data.SubmitResults[2].MsID
    /\ call.x.doc.Data.SubmitResults[1].MessageID = 1002
    /\ call.x.doc.Data.SubmitResults[2].MessageID = 1001
    /\ \E i \in DOMAIN batch.Submits :
          /\ batch.Submits[i].MsID = call.x.doc.Data.SubmitResults[2].MsID
          /\ batch.Submits[i].MessageID = 1001
          /\ call.batch.Submits[i].MessageID = 0

\* C4: a response that is not HTTP 200 gives the error carrying the status
\* code, whatever its body holds; a 200 response whose body does not decode
\* gives the decode error; the batch is changed only by a response that is 200
\* and decodes, and in the two error outcomes it is as it was before the call.
C4_TransportThenDecodeThenReconcile ==
    SendReturned =>
        LET t == call.x.t IN
        /\ (t.doErr = "" /\ t.StatusCode # 200) =>
              /\ ret.err = Errorf("http status: " \o Itoa(t.StatusCode)
                                   \o " with token: " \o call.token)
              /\ batch = call.batch
        /\ (t.doErr = "" /\ t.StatusCode = 200 /\ t.readErr = "" /\ t.jsonErr # "") =>
              /\ ret.err = Errorf("json.Unmarshal(): " \o t.jsonErr)
              /\ batch = call.batch
        /\ batch # call.batch => WellFormed(t)

\* C4 witness: HTTP 500 with a body that holds a submit result for a recipient
\* of the batch; the error names 500 and the batch is untouched.
C4_Witness ==
    /\ SendReturned
    /\ call.x.t.StatusCode = 500 /\ call.x.t.jsonErr = ""
    /\ call.x.doc.Status = 0
    /\ \E k \in DOMAIN call.x.doc.Data.SubmitResults :
          \E i \in DOMAIN call.batch.Submits :
              /\ call.batch.Submits[i].MsID = call.x.doc.Data.SubmitResults[k].MsID
              /\ call.batch.Submits[i].MessageID # call.x.doc.Data.SubmitResults[k].MessageID
    /\ ret.err.msg = "http status: 500 with token: valid-token"
    /\ batch = call.batch

\* C5: whatever the outcome, the batch has the same elements in the same order
\* with their recipients and texts, and the same Naming; an element whose
\* recipient no entry of the response names keeps its MessageID and SendError.
C5_Frame ==
    SendReturned =>
        /\ Len(batch.Submits) = Len(call.batch.Submits)
        /\ batch.Naming = call.batch.Naming
        /\ \A i \in DOMAIN call.batch.Submits :
              /\ batch.Submits[i].MsID = call.batch.Submits[i].MsID
              /\ batch.Submits[i].Message = call.batch.Submits[i].Message
              /\ EntriesFor(call.x.doc.Data.SubmitResults, call.batch.Submits[i].MsID) = {}
                    => /\ batch.Submits[i].MessageID = call.batch.Submits[i].MessageID
                       /\ batch.Submits[i].SendError = call.batch.Submits[i].SendError

\* C5 witness: a well-formed response changed one element and named no entry
\* for another, which keeps the identifier an earlier call gave it.
C5_Witness ==
    /\ SendReturned /\ WellFormed(call.x.t)
    /\ Len(batch.Submits) = 2
    /\ batch.Submits[1] # call.batch.Submits[1]
    /\ EntriesFor(call.x.doc.Data.SubmitResults, call.batch.Submits[2].MsID) = {}
    /\ call.batch.Submits[2].MessageID = 1002
    /\ batch.Submits[2] = call.batch.Submits[2]

----------------------------------------------------------------------------
(* Properties of GetSMSStatuses, GetSMSStatus and the classification helpers *)

StatusesReturned == call.op = "GetSMSStatuses"

\* the call was answered with HTTP 200, a body that decoded and code 0
QuerySucceeded ==
    WellFormed(call.x.t) /\ call.x.doc.Code = 0

\* the number of status entries in the first g groups of data
RECURSIVE EntriesBefore(_, _)
EntriesBefore(data, g) ==
    IF g = 0 THEN 0 ELSE EntriesBefore(data, g - 1) + Len(data[g].Statuses)

\* C6: a successful call on a non-empty identifier list returns as many
\* records as the response has status entries in all its groups; entry k of
\* group g is the record after those of the earlier groups and the earlier
\* entries of g, with its msid, status and cost and with the decimal text of
\* the messageID of group g.
C6_FlattenedInGroupThenEntryOrder ==
    (StatusesReturned /\ call.messageIDs # <<>> /\ QuerySucceeded) =>
        LET data == call.x.doc.Data
            out  == ret.statuses.items
        IN /\ ret.err.nil
           /\ Len(out) = EntriesBefore(data, Len(data))
           /\ \A g \in DOMAIN data : \A k \in DOMAIN data[g].Statuses :
                 LET rec == out[EntriesBefore(data, g - 1) + k] IN
                 /\ rec.MsID = data[g].Statuses[k].MsID
                 /\ rec.Status = data[g].Statuses[k].Status
                 /\ rec.Cost = data[g].Statuses[k].Cost
                 /\ rec.MessageID = Itoa(data[g].MessageID)

\* C6 witness: identifier 9999 is asked; the gateway answers group 1002 with
\* two entries, then group 1001 with one; three records come back in that
\* order and none carries "9999".
C6_Witness ==
    /\ StatusesReturned /\ QuerySucceeded
    /\ call.messageIDs = <<9999>>
    /\ Len(call.x.doc.Data) = 2
    /\ call.x.doc.Data[1].MessageID = 1002 /\ Len(call.x.doc.Data[1].Statuses) = 2
    /\ call.x.doc.Data[1].Statuses[1].Status = "NotSent"
    /\ call.x.doc.Data[1].Statuses[2].Status = "Delivered"
    /\ call.x.doc.Data[2].MessageID = 1001 /\ Len(call.x.doc.Data[2].Statuses) = 1
    /\ Len(ret.statuses.items) = 3
    /\ ret.statuses.items[1].MessageID = "1002" /\ ret.statuses.items[1].Status = "NotSent"
    /\ ret.statuses.items[2].MessageID = "1002" /\ ret.statuses.items[2].Status = "Delivered"
    /\ ret.statuses.items[2].Cost = 150
    /\ ret.statuses.items[3].MessageID = "1001"

\* C7: a call with no identifiers returns an empty, non-nil list and no error
\* and issues no request, whatever the token and the package variables are.
C7_EmptyInputNoRequest ==
    (StatusesReturned /\ call.messageIDs = <<>>) =>
        /\ ret.statuses = Slice(<<>>)
        /\ ret.err = NilErr
        /\ sent = <<>>

\* C7 witness: the empty call under the test's package variables and the empty
\* token, with a gateway that would have answered with statuses.
C7_Witness ==
    /\ StatusesReturned /\ call.messageIDs = <<>>
    /\ env = TestEnv /\ call.token = ""
    /\ QuerySucceeded /\ call.x.doc.Data # <<>>
    /\ ret.statuses.items = <<>> /\ ret.err.nil /\ sent = <<>>

\* C8: on a non-empty identifier list a non-200 status gives the transport
\* error; otherwise a body that does not decode gives the decode error;
\* otherwise a non-zero code gives the API error with the description; every
\* error comes with no statuses.
C8_ErrorsInOrderWithoutStatuses ==
    (StatusesReturned /\ call.messageIDs # <<>>) =>
        LET t == call.x.t IN
        /\ (t.doErr = "" /\ t.StatusCode # 200) =>
              ret.err = Errorf("http status: " \o Itoa(t.StatusCode))
        /\ (t.doErr = "" /\ t.StatusCode = 200 /\ t.readErr = "" /\ t.jsonErr # "") =>
              ret.err = Errorf("json.Unmarshal(): " \o t.jsonErr \o ", body: " \o t.raw)
        /\ (WellFormed(t) /\ call.x.doc.Code # 0) =>
              ret.err = Errorf("API error: " \o call.x.doc.Description)
        /\ ~ret.err.nil => ret.statuses = NilSlice
        /\ ret.statuses.items # <<>> => ret.err.nil

\* C8 witness: HTTP 200, decoded, code 1 "Invalid token" and data that holds a
\* status entry: the API error and a nil list.
C8_Witness ==
    /\ StatusesReturned /\ call.messageIDs # <<>>
    /\ WellFormed(call.x.t) /\ call.x.doc.Code = 1
    /\ \E g \in DOMAIN call.x.doc.Data : call.x.doc.Data[g].Statuses # <<>>
    /\ ret.err.msg = "API error: Invalid token"
    /\ ret.statuses.nil

StatusReturned == call.op = "GetSMSStatus"

\* C9: GetSMSStatus(id) sends the one request of GetSMSStatuses for the list
\* <<id>>; its error is the not-found error naming id exactly when the query
\* succeeded and the response holds no status entry; an error of the query is
\* returned as it is; otherwise the first flattened record is returned; a nil
\* error never comes with a nil or zero status.
C9_SingleLookup ==
    StatusReturned =>
        LET id == call.messageID
            u  == GetSMSStatuses(env, <<id>>, call.token, call.x)
            notFound == Errorf("no status found for message ID " \o Itoa(id))
            noEntry == \A g \in DOMAIN call.x.doc.Data : call.x.doc.Data[g].Statuses = <<>>
        IN /\ Len(sent) = 1
           /\ sent[1].url = env.MessageStatusEndpointTempl.pre \o Itoa(id)
                              \o env.MessageStatusEndpointTempl.post
           /\ (ret.err = notFound) <=> (QuerySucceeded /\ noEntry)
           /\ ~u.err.nil => (ret.err = u.err /\ ret.status = NilStatus)
           /\ (u.err.nil /\ ~noEntry) =>
                 (ret.err = NilErr /\ ret.status = StatusPtr(u.statuses.items[1]))
           /\ ret.err.nil =>
                 /\ ~ret.status.nil
                 /\ ret.status.val # [MessageID |-> "", MsID |-> "", Status |-> "",
                                      Cost |-> 0, Error |-> ""]

\* C9 witness: 9999 is asked and the gateway answers code 0 with one group,
\* 1002, that lists no status: the not-found error names 9999.
C9_Witness ==
    /\ StatusReturned /\ QuerySucceeded
    /\ call.messageID = 9999
    /\ Len(call.x.doc.Data) = 1
    /\ call.x.doc.Data[1].MessageID = 1002
    /\ call.x.doc.Data[1].Statuses = <<>>
    /\ ret.err.msg = "no status found for message ID 9999"
    /\ ret.status.nil

\* C10: IsFinalStatus holds exactly of Delivered, NotDelivered and NotSent,
\* IsDeliveredStatus exactly of Delivered, IsFailedStatus exactly of
\* NotDelivered and NotSent; final is delivered or failed, never both.
C10_Classification ==
    call.op = "Classify" =>
        /\ ret.final = (call.status \in {"Delivered", "NotDelivered", "NotSent"})
        /\ ret.delivered = (call.status = "Delivered")
        /\ ret.failed = (call.status \in {"NotDelivered", "NotSent"})
        /\ ret.final = (ret.delivered \/ ret.failed)
        /\ ~(ret.delivered /\ ret.failed)
        /\ call.status \notin {"Delivered", "NotDelivered", "NotSent"} =>
              (~ret.final /\ ~ret.delivered /\ ~ret.failed)

\* C10 witness: "Sent", a status of the gateway that is not final, and all
\* three helpers answer false.
C10_Witness ==
    /\ call.op = "Classify"
    /\ call.status = "Sent"
    /\ ~ret.final /\ ~ret.delivered /\ ~ret.failed

----------------------------------------------------------------------------
(* The per-call timeout (mts.go:95-97, 110-113 and 165-167, 179-182) *)

MaxTimedEntries == 1    \* most entries in a document of a timed exchange

\* values a caller gives QueryTimeoutSec: the test's 0, one second, the default
TimeoutSecs == {0, 1, QueryTimeoutSec}

TimeoutEnvs == {[DefaultEnv EXCEPT !.QueryTimeoutSec = s] : s \in TimeoutSecs}

\* time the server takes to answer, in milliseconds: the test handler's sleep,
\* and two longer ones
LatenciesMs == {100, 5000, 20000}

\* what client.Do returns when the client's Timeout ends the exchange
TimeoutErr == "context deadline exceeded (Client.Timeout exceeded while awaiting headers)"

\* What a server that answers makes of a request.  The last is the answer of
\* the test handler that sleeps and writes nothing: 200 with an empty body.
ServerTransports ==
    {t \in Transports : t.doErr = ""} \cup
    {[doErr |-> "", StatusCode |-> 200, readErr |-> "",
      jsonErr |-> "unexpected end of JSON input", raw |-> ""]}

\* the server's side of an exchange of SendSMS: its latency and its answer
TimedSendExchanges ==
    {[latencyMs |-> l, t |-> t, doc |-> d] :
        l \in LatenciesMs, t \in ServerTransports,
        d \in {e \in SendResponses : Len(e.Data.SubmitResults) <= MaxTimedEntries}}

\* the server's side of an exchange of GetSMSStatuses
TimedStatExchanges ==
    {[latencyMs |-> l, t |-> t, doc |-> d] :
        l \in LatenciesMs, t \in ServerTransports,
        d \in {e \in StatResponses :
                  /\ Len(e.Data) <= MaxTimedEntries
                  /\ \A g \in DOMAIN e.Data : Len(e.Data[g].Statuses) <= MaxTimedEntries}}

\* http.Client{Timeout: time.Duration(timeoutSec) * time.Second}.Do against a
\* server that answers after sx.latencyMs: the client sets a deadline only when
\* its Timeout is greater than zero (a Timeout of zero means no timeout);
\* without a deadline, or when the answer comes before it, client.Do returns
\* the server's response
ClientDo(timeoutSec, sx) ==
    IF timeoutSec > 0 /\ sx.latencyMs > timeoutSec * 1000
    THEN [t   |-> [doErr |-> TimeoutErr, StatusCode |-> 0, readErr |-> "",
                   jsonErr |-> "", raw |-> ""],
          doc |-> sx.doc]
    ELSE [t |-> sx.t, doc |-> sx.doc]

\* the caller has set QueryTimeoutSec and built a batch
InitTimeout ==
    /\ env \in TimeoutEnvs
    /\ batch \in FreshBatches
    /\ call = NoCall
    /\ ret = NoRet
    /\ sent = <<>>

\* SendSMS(batch, token) against a server with a latency
SendSMSTimedCall ==
    /\ call.op = "none"
    /\ \E token \in Tokens, sx \in TimedSendExchanges :
          LET x == ClientDo(env.QueryTimeoutSec, sx)
              r == SendSMS(env, batch, token, x)
          IN /\ call' = [op |-> "SendSMS", batch |-> batch, token |-> token,
                         x |-> x, server |-> sx]
             /\ batch' = r.batch
             /\ ret' = [op |-> "SendSMS", err |-> r.err]
             /\ sent' = r.sent
    /\ UNCHANGED env

\* GetSMSStatuses(messageIDs, token) against a server with a latency
GetSMSStatusesTimedCall ==
    /\ call.op = "none"
    /\ \E messageIDs \in SeqsUpTo(QueryIDs, MaxIDs), token \in Tokens,
          sx \in TimedStatExchanges :
          LET x == ClientDo(env.QueryTimeoutSec, sx)
              r == GetSMSStatuses(env, messageIDs, token, x)
          IN /\ call' = [op |-> "GetSMSStatuses", messageIDs |-> messageIDs,
                         token |-> token, x |-> x, server |-> sx]
             /\ ret' = [op |-> "GetSMSStatuses", statuses |-> r.statuses, err |-> r.err]
             /\ sent' = r.sent
    /\ UNCHANGED <<env, batch>>

NextTimeout == SendSMSTimedCall \/ GetSMSStatusesTimedCall

SpecTimeout == InitTimeout /\ [][NextTimeout]_vars

\* a call that issued its request to a server slower than the configured timeout
SlowerThanTimeout ==
    /\ call.op \in {"SendSMS", "GetSMSStatuses"}
    /\ sent # <<>>
    /\ call.server.latencyMs > env.QueryTimeoutSec * 1000

\* C11: for every value of QueryTimeoutSec, a call whose server takes longer
\* than the timeout to answer returns the error of client.Do, and does not go
\* on to the response's status or body.
C11_SlowServerGivesTransportError ==
    SlowerThanTimeout =>
        /\ ret.err = Errorf("client.Do(): " \o TimeoutErr)
        /\ batch = IF call.op = "SendSMS" THEN call.batch ELSE batch

----------------------------------------------------------------------------
(* SendError over a sequence of calls *)

\* C12: no step clears a send-error flag: an element whose SendError is true
\* has it true after every call on the batch, also when the response reports
\* "OK" for its recipient; and when a response holds several entries for the
\* recipient of an element, one of them not "OK", the element ends with
\* SendError true and with the messageID of the last of them.
C12_SendErrorNeverCleared ==
    [][/\ Len(batch'.Submits) = Len(batch.Submits)
       /\ \A i \in DOMAIN batch.Submits :
             batch.Submits[i].SendError => batch'.Submits[i].SendError
       /\ (call.op = "none" /\ call'.op = "SendSMS" /\ WellFormed(call'.x.t)) =>
             \A i \in DOMAIN batch.Submits :
                LET res == call'.x.doc.Data.SubmitResults
                    ks  == IF IsFirstOf(batch.Submits, i)
                           THEN EntriesFor(res, batch.Submits[i].MsID) ELSE {}
                IN (\E k \in ks : res[k].Code # "OK") =>
                      /\ batch'.Submits[i].SendError
                      /\ batch'.Submits[i].MessageID = res[Max(ks)].MessageID
      ]_vars

\* C12 witness: an element that an earlier call left with SendError true and
\* identifier 1001 is answered 1002 with code "OK" by a later call: it has the
\* new identifier and SendError is still true.
C12_Witness ==
    /\ SendReturned /\ WellFormed(call.x.t)
    /\ \E i \in DOMAIN call.batch.Submits :
          /\ call.batch.Submits[i].SendError
          /\ call.batch.Submits[i].MessageID = 1001
          /\ WrittenTo(i) # {}
          /\ \A k \in WrittenTo(i) :
                /\ call.x.doc.Data.SubmitResults[k].Code = "OK"
                /\ call.x.doc.Data.SubmitResults[k].MessageID = 1002
          /\ batch.Submits[i].MessageID = 1002
          /\ batch.Submits[i].SendError

====
